---- MODULE Spec2Model ----
(***************************************************************************)
(* Stock ledger of the housing/stock dashboard (src/client/pages/Stock.tsx) *)
(* over the remote document store: the collections 'stocks',               *)
(* 'stock_transfers' and 'stock_additions', the snapshots its listeners     *)
(* deliver to the open pages, and the four handlers handleAddStockSubmit,  *)
(* handleConfirmAddition, handleTransferSubmit and handleConfirmTransfer.  *)
(*                                                                         *)
(* A user can have the page open in any number of browser sessions.  The   *)
(* React state of a session (stocks, transfers, stockAdditions, the forms, *)
(* the confirmation dialogs) is what its listeners delivered at some       *)
(* earlier time, so a handler is invoked with any value that state can     *)
(* hold in some session of the user: the list stocks is an earlier         *)
(* snapshot of the collection, and the transfer or addition passed to a    *)
(* confirmation is a copy that some session of the receiving sector still  *)
(* shows as pending.                                                       *)
(*                                                                         *)
(* A handler is an async function: it runs up to its next await, and other *)
(* handlers and listener callbacks run in between.  A getDocs query that   *)
(* follows a write is taken in the same step as that write; the write that *)
(* follows a query is a later step, so the window between an existence     *)
(* query and the create/update that depends on it is kept.  Every store    *)
(* write either commits or throws (StoreError).  The unit and timestamp    *)
(* fields of the documents play no part in any balance and are left out.   *)
(***************************************************************************)
EXTENDS Integers, Sequences, FiniteSets, TLC

\* ---------------------------------------------------------------- bounds
MaxOps == 3      \* handler invocations that pass validation, per run
MaxProcs == 2    \* handler invocations that may be between two awaits at once
MaxSyncs == 1    \* occupancy sync passes that may be between two awaits at once
MaxEdits == 1    \* worker edits made outside the page, per run
MaxMen == 22     \* workers filed under one room
MaxTransfers == 3 \* transfers in 'stock_transfers' while the transfer list is open

\* ------------------------------------------------------- users and inputs
Sects == {"S1", "S2"}
Items == {"ciment"}
Clients == {"sa", "a1", "a2"}

\* useAuth(): isSuperAdmin and user.fermeId of the session
isSuperAdmin(c) == c = "sa"
fermeId(c) == CASE c = "a1" -> "S1" [] c = "a2" -> "S2" [] OTHER -> ""

\* contents of the quantity <Input> of the transfer form and of the add-stock
\* form; "" is the untouched field
QtyInputs == {"", "0", "1", "2"}
AddQtyInputs == {"", "0", "1"}

\* parseInt on the non-empty quantity strings of QtyInputs
parseInt(s) == CASE s = "0" -> 0 [] s = "1" -> 1 [] s = "2" -> 2

\* the 'stocks' collection when the page is opened
InitStocks ==
  { <<>>,
    << [secteurId |-> "S1", item |-> "ciment", quantity |-> 1] >> }

VARIABLES
  db_stocks,            \* collection 'stocks': Seq of rows, document id = index
  db_stock_transfers,   \* collection 'stock_transfers'
  db_stock_additions,   \* collection 'stock_additions'
  snapshots,            \* the successive contents of 'stocks' the listeners delivered
  procs,                \* [1..MaxProcs -> handler invocation between two awaits]
  nOps,                 \* number of handler invocations that passed validation
  lastResult            \* what the most recently finished handler did and reported

\* the housing page (Fermes): collections 'workers' and 'rooms', the page's
\* copies of them, and the occupancy sync
VARIABLES
  db_workers,           \* collection 'workers': Seq of worker documents
  db_rooms,             \* collection 'rooms': Seq of room documents, id = index
  workers,              \* useFirestore('workers').data: the page's React state
  rooms,                \* useFirestore('rooms').data
  timer,                \* the pending timeouts of the sync effect
  syncs,                \* [1..MaxSyncs -> syncRoomOccupancy pass between two awaits]
  nEdits,               \* number of worker edits made outside the page
  lastSync,             \* what the most recent step of the page did
  stats                 \* what the most recent call of getFermeStats returned

stockVars == << db_stocks, db_stock_transfers, db_stock_additions, snapshots, procs,
                nOps, lastResult >>

housingVars == << db_workers, db_rooms, workers, rooms, timer, syncs, nEdits,
                  lastSync >>

statsVars == << stats >>

\* the transfer listeners of a sector admin's session of the Stock page
VARIABLES
  incomingTransfers,    \* let incomingTransfers of the effect: Seq of transfer ids
  outgoingTransfers,    \* let outgoingTransfers
  unsubscribeCount,     \* let unsubscribeCount
  transfers,            \* the React state `transfers`: the displayed list
  lastList              \* how many snapshots each listener delivered, and publications

listVars == << incomingTransfers, outgoingTransfers, unsubscribeCount, transfers,
               lastList >>

vars == << stockVars, housingVars, statsVars, listVars >>

store == << db_stocks, db_stock_transfers, db_stock_additions >>

\* ------------------------------------------------------------- documents
RECURSIVE SumQty(_, _)
SumQty(rows, S) ==
  IF S = {} THEN 0
  ELSE LET i == CHOOSE x \in S : TRUE
       IN rows[i].quantity + SumQty(rows, S \ {i})

\* query(collection(db,'stocks'), where secteurId == s, where item == it): ids
StockQuery(rows, s, it) ==
  { i \in 1..Len(rows) : rows[i].secteurId = s /\ rows[i].item = it }

\* the quantity a sector holds of an item: 0 if it has no row
Balance(rows, s, it) == SumQty(rows, StockQuery(rows, s, it))

\* snapshot.docs[0] of an existence query, 0 for snapshot.empty.  Document
\* ids are random strings, so any matching document can come first.
FirstDocs(rows, s, it) ==
  IF StockQuery(rows, s, it) = {} THEN {0} ELSE StockQuery(rows, s, it)

\* mutant: the update writes n as the quantity instead of incrementing by n
IncrementDoc_overwrite(rows, id, n) ==
  [rows EXCEPT ![id].quantity = n]

\* updateDoc(doc(db,'stocks',id), {quantity: increment(n)})
IncrementDoc(rows, id, n) ==
  [rows EXCEPT ![id].quantity = rows[id].quantity + n]

\* addDoc(collection(db,'stocks'), {secteurId, item, quantity})
AddStockDoc(rows, s, it, q) ==
  Append(rows, [secteurId |-> s, item |-> it, quantity |-> q])

\* mutant: the status update flips the status instead of setting it
ConfirmDoc_toggle(rows, id) ==
  [rows EXCEPT ![id].status = IF rows[id].status = "pending" THEN "confirmed"
                              ELSE "pending"]

\* updateDoc(doc(db, collection, id), {status: 'confirmed', confirmedAt})
ConfirmDoc(rows, id) == [rows EXCEPT ![id].status = "confirmed"]

\* mutant: the upsert never takes the update branch
Upsert_alwaysCreate(rows, found, s, it, q) == AddStockDoc(rows, s, it, q)

\* the upsert shared by the three handlers: create when the query was empty,
\* else increment the document the query returned first
Upsert(rows, found, s, it, q) ==
  IF found = 0 THEN AddStockDoc(rows, s, it, q) ELSE IncrementDoc(rows, found, q)

\* ------------------------------------------------- snapshot listener queries
\* "Load stocks based on user role": the list the stocks listener publishes
\* from the collection contents rows, under the sector filter sel
StocksQuery(c, sel, rows) ==
  { [id |-> i, secteurId |-> rows[i].secteurId, item |-> rows[i].item,
     quantity |-> rows[i].quantity] :
    i \in { j \in 1..Len(rows) :
              IF isSuperAdmin(c)
              THEN sel = "all" \/ rows[j].secteurId = sel
              ELSE rows[j].secteurId = fermeId(c) } }

\* values of selectedSecteur: the filter <Select> is rendered for the super admin
Filters(c) == IF isSuperAdmin(c) THEN {"all"} \cup Sects ELSE {"all"}

\* items offered by the transfer form's article <Select>
availableItems(c, fromSecteurId, stocks) ==
  LET sourceSecteur == IF isSuperAdmin(c) THEN fromSecteurId ELSE fermeId(c)
  IN { r.item : r \in { x \in stocks : x.secteurId = sourceSecteur /\ x.quantity > 0 } }

\* transferForm.item while the session held snapshot i: nothing selected, or
\* an item the <Select> offered for some source sector and filter
Selectable(c, item, i) ==
  \/ item = ""
  \/ \E sel \in Filters(c), s \in Sects :
       item \in availableItems(c, s, StocksQuery(c, sel, snapshots[i]))

\* mutant: the list holds the transfers the sector sent
pendingIncomingTransfers_outgoing(c) ==
  { i \in 1..Len(db_stock_transfers) : db_stock_transfers[i].fromSecteurId = fermeId(c) }

\* the transfers a session of c lists under "Transferts en Attente": each
\* transfer is created pending and stays listed until the session's listener
\* delivers its confirmation
pendingIncomingTransfers(c) ==
  { i \in 1..Len(db_stock_transfers) : db_stock_transfers[i].toSecteurId = fermeId(c) }

\* the additions a session of sector admin c lists as pending
pendingAdditions(c) ==
  { i \in 1..Len(db_stock_additions) : db_stock_additions[i].secteurId = fermeId(c) }

\* ------------------------------------------------------ handler invocations
Idle == [pc |-> "idle", client |-> "", id |-> 0, from |-> "", to |-> "", item |-> "",
         quantity |-> 0, found |-> 0, startStatus |-> "", preFrom |-> 0, preTo |-> 0,
         clean |-> TRUE, senderFound |-> FALSE, form |-> ""]

NoResult == [op |-> "none", client |-> "", outcome |-> "", id |-> 0, from |-> "",
             to |-> "", item |-> "", quantity |-> 0, available |-> 0,
             startStatus |-> "", clean |-> TRUE, senderFound |-> FALSE, form |-> ""]

Result(op, c, outcome) == [NoResult EXCEPT !.op = op, !.client = c, !.outcome = outcome]

ProcResult(op, proc, outcome) ==
  [op |-> op, client |-> proc.client, outcome |-> outcome, id |-> proc.id,
   from |-> proc.from, to |-> proc.to, item |-> proc.item,
   quantity |-> proc.quantity, available |-> 0,
   startStatus |-> proc.startStatus, clean |-> proc.clean,
   senderFound |-> proc.senderFound, form |-> proc.form]

FreeProcs == { p \in 1..MaxProcs : procs[p].pc = "idle" }
\* the slot a new invocation takes
NewProc == CHOOSE p \in FreeProcs : \A q \in FreeProcs : p <= q

\* a write by invocation self to the row(s) of (s, it): every other invocation
\* in flight on that sector and item no longer sees the balances it started from
Disturb(P, self, s, it) ==
  [p \in DOMAIN P |->
     IF p # self /\ P[p].pc # "idle" /\ P[p].item = it /\ s \in {P[p].from, P[p].to}
     THEN [P[p] EXCEPT !.clean = FALSE] ELSE P[p]]

\* the housing page is not open
NoSync == [pc |-> "idle", workers |-> <<>>, rooms |-> <<>>, i |-> 0, failed |-> FALSE,
           clean |-> TRUE, corrected |-> FALSE]

NoSyncResult == [op |-> "none", pass |-> 0, skipped |-> {}, issued |-> 0, settled |-> 0,
                 ok |-> FALSE, done |-> FALSE, valid |-> FALSE, corrected |-> FALSE,
                 burst |-> FALSE]

\* getFermeStats has not been called
NoStats == [fermeId |-> ""]

\* no listener of the transfer list has delivered anything: useState([])
NoList == [incoming |-> FALSE, outgoing |-> FALSE, published |-> FALSE]

ListClosed ==
  /\ incomingTransfers = <<>> /\ outgoingTransfers = <<>>
  /\ unsubscribeCount = 0
  /\ transfers = <<>>
  /\ lastList = NoList

HousingClosed ==
  /\ db_workers = <<>> /\ db_rooms = <<>>
  /\ workers = <<>> /\ rooms = <<>>
  /\ timer = {}
  /\ syncs = [p \in 1..MaxSyncs |-> NoSync]
  /\ nEdits = 0
  /\ lastSync = NoSyncResult
  /\ stats = NoStats

Init ==
  /\ ListClosed
  /\ HousingClosed
  /\ db_stocks \in InitStocks
  /\ db_stock_transfers = <<>>
  /\ db_stock_additions = <<>>
  /\ snapshots = << db_stocks >>
  /\ procs = [p \in 1..MaxProcs |-> Idle]
  /\ nOps = 0
  /\ lastResult = NoResult

\* onSnapshot(stockQuery, ...): a committed write to 'stocks' reaches the
\* listeners, which publish the new contents
WriteStocks(rows) ==
  /\ db_stocks' = rows
  /\ snapshots' = Append(snapshots, rows)

\* ---------------------------------------------------- handleAddStockSubmit
NoStock == [id |-> 0, secteurId |-> "", item |-> "", quantity |-> 0]

\* the document a super admin's submit adds to 'stock_additions'
NewAddition(c, secteurId, item, quantity) ==
  [secteurId |-> secteurId, item |-> item, quantity |-> quantity,
   status |-> "pending", addedBy |-> c]

\* the required-fields test and the "quantity <= 0" test of the add-stock form
AddStockInvalid(c, item, qtyIn, secteurId) ==
  \/ item = "" \/ qtyIn = "" \/ (~isSuperAdmin(c) /\ secteurId = "")
  \/ parseInt(qtyIn) <= 0

\* Submit of the add-stock form.  A super admin's addDoc of the pending
\* addition is the handler's only await; a sector admin's handler runs up to
\* the existence query and continues in AddStockWrite.
\* mutant: the row is looked up and created under the form's sector
AddSecteur_form(c, secteurId) == secteurId

\* where('secteurId', '==', user?.fermeId) and secteurId: user?.fermeId: a
\* sector admin's addition goes to the session's sector, not to
\* addStockForm.secteurId
AddSecteur(c, secteurId) == fermeId(c)

handleAddStockSubmit(c, item, qtyIn, secteurId) ==
  /\ nOps < MaxOps
  /\ IF AddStockInvalid(c, item, qtyIn, secteurId)
     THEN /\ lastResult' = Result("addStock", c, "validation")
          /\ UNCHANGED << store, procs, nOps >>
     ELSE IF isSuperAdmin(c)
     THEN \E ok \in BOOLEAN :
            /\ nOps' = nOps + 1
            /\ db_stock_additions' =
                 IF ok THEN Append(db_stock_additions,
                                   NewAddition(c, secteurId, item, parseInt(qtyIn)))
                 ELSE db_stock_additions
            /\ lastResult' = [Result("addStock", c, IF ok THEN "ok" ELSE "error") EXCEPT
                                !.to = secteurId, !.item = item,
                                !.quantity = parseInt(qtyIn),
                                !.id = IF ok THEN Len(db_stock_additions) + 1 ELSE 0]
            /\ UNCHANGED << db_stocks, db_stock_transfers, procs >>
     ELSE /\ FreeProcs # {}
          /\ nOps' = nOps + 1
          /\ \E found \in FirstDocs(db_stocks, AddSecteur(c, secteurId), item) :
               LET started == [Idle EXCEPT !.pc = "as_write", !.client = c,
                                           !.to = AddSecteur(c, secteurId),
                                           !.item = item,
                                           !.quantity = parseInt(qtyIn),
                                           !.found = found, !.form = secteurId]
               IN /\ procs' = [procs EXCEPT ![NewProc] = started]
                  /\ lastResult' = ProcResult("addStock", started, "started")
          /\ UNCHANGED store
  /\ UNCHANGED snapshots

\* the sector admin's create-or-increment after the existence query
AddStockWrite(p) ==
  /\ procs[p].pc = "as_write"
  /\ \E ok \in BOOLEAN :
       IF ok
       THEN /\ WriteStocks(Upsert(db_stocks, procs[p].found, procs[p].to,
                                  procs[p].item, procs[p].quantity))
            /\ procs' = Disturb([procs EXCEPT ![p] = Idle], p, procs[p].to,
                                procs[p].item)
            /\ lastResult' = [ProcResult("addStock", procs[p], "ok") EXCEPT
                                !.id = procs[p].found]
       ELSE /\ procs' = [procs EXCEPT ![p] = Idle]
            /\ lastResult' = ProcResult("addStock", procs[p], "error")
            /\ UNCHANGED << db_stocks, snapshots >>
  /\ UNCHANGED << db_stock_transfers, db_stock_additions, nOps >>

\* --------------------------------------------------- handleConfirmAddition
\* "Confirmer l'Ajout" in the dialog of a session of sector admin c that lists
\* addition id as pending: the status update is written and the existence
\* query is read
handleConfirmAddition(c, id) ==
  /\ ~isSuperAdmin(c)
  /\ id \in pendingAdditions(c)
  /\ nOps < MaxOps
  /\ FreeProcs # {}
  /\ nOps' = nOps + 1
  /\ LET addition == db_stock_additions[id]
         started == [Idle EXCEPT !.client = c, !.id = id,
                                 !.to = addition.secteurId, !.item = addition.item,
                                 !.quantity = addition.quantity,
                                 !.startStatus = addition.status]
     IN \E ok \in BOOLEAN :
          IF ok
          THEN /\ db_stock_additions' = ConfirmDoc(db_stock_additions, id)
               /\ \E found \in FirstDocs(db_stocks, addition.secteurId, addition.item) :
                    /\ procs' = [procs EXCEPT ![NewProc] =
                                   [started EXCEPT !.pc = "ca_write", !.found = found]]
                    /\ lastResult' = ProcResult("confirmAddition", started, "started")
          ELSE /\ lastResult' = ProcResult("confirmAddition", started, "error")
               /\ UNCHANGED << db_stock_additions, procs >>
  /\ UNCHANGED << db_stocks, db_stock_transfers, snapshots >>

\* "Add to farm's stock"
ConfirmAdditionWrite(p) ==
  /\ procs[p].pc = "ca_write"
  /\ \E ok \in BOOLEAN :
       IF ok
       THEN /\ WriteStocks(Upsert(db_stocks, procs[p].found, procs[p].to,
                                  procs[p].item, procs[p].quantity))
            /\ procs' = Disturb([procs EXCEPT ![p] = Idle], p, procs[p].to,
                                procs[p].item)
            /\ lastResult' = ProcResult("confirmAddition", procs[p], "ok")
       ELSE /\ procs' = [procs EXCEPT ![p] = Idle]
            /\ lastResult' = ProcResult("confirmAddition", procs[p], "error")
            /\ UNCHANGED << db_stocks, snapshots >>
  /\ UNCHANGED << db_stock_transfers, db_stock_additions, nOps >>

\* ---------------------------------------------------- handleTransferSubmit
\* const fromSecteurId = isSuperAdmin ? transferForm.fromSecteurId : user?.fermeId
TransferFrom(c, formFrom) == IF isSuperAdmin(c) THEN formFrom ELSE fermeId(c)

\* mutant: the same-sector test is missing
TransferInvalid_noSameSector(c, formFrom, item, qtyIn, toSecteurId) ==
  \/ item = "" \/ qtyIn = "" \/ toSecteurId = ""
  \/ (isSuperAdmin(c) /\ formFrom = "")
  \/ parseInt(qtyIn) <= 0

\* the required-fields, same-sector and "quantity <= 0" tests
TransferInvalid(c, formFrom, item, qtyIn, toSecteurId) ==
  \/ item = "" \/ qtyIn = "" \/ toSecteurId = ""
  \/ (isSuperAdmin(c) /\ formFrom = "")
  \/ toSecteurId = TransferFrom(c, formFrom)
  \/ parseInt(qtyIn) <= 0

\* stocks.find(s => s.secteurId === fromSecteurId && s.item === item): the
\* list is sorted by lastUpdated, so any matching row can be the first
CurrentStocks(stocks, from, item) ==
  LET m == { r \in stocks : r.secteurId = from /\ r.item = item }
  IN IF m = {} THEN {NoStock} ELSE m

\* !currentStock || currentStock.quantity < quantity
Insufficient(currentStock, quantity) ==
  currentStock = NoStock \/ currentStock.quantity < quantity

\* mutant: the transfer is stored as already confirmed
NewTransfer_confirmed(from, toSecteurId, item, quantity) ==
  [fromSecteurId |-> from, toSecteurId |-> toSecteurId, item |-> item,
   quantity |-> quantity, status |-> "confirmed"]

\* the document a successful submit adds to 'stock_transfers'
NewTransfer(from, toSecteurId, item, quantity) ==
  [fromSecteurId |-> from, toSecteurId |-> toSecteurId, item |-> item,
   quantity |-> quantity, status |-> "pending"]

\* the rows stocks.find can return in a session of c whose form holds item:
\* the session's filter is some sel and its stocks state some snapshot j, the
\* item having been selected from that or an earlier snapshot
FoundStocks(c, from, item) ==
  UNION { CurrentStocks(StocksQuery(c, sj[1], snapshots[sj[2]]), from, item) :
          sj \in { x \in Filters(c) \X (1..Len(snapshots)) :
                     \E i \in 1..x[2] : Selectable(c, item, i) } }

\* Submit of the transfer form in a session of c whose form holds formFrom,
\* item, qtyIn and toSecteurId.  The addDoc of the pending transfer is the
\* handler's only await.
handleTransferSubmit(c, formFrom, item, qtyIn, toSecteurId) ==
  /\ nOps < MaxOps
  /\ \E i \in 1..Len(snapshots) : Selectable(c, item, i)
  /\ LET from == TransferFrom(c, formFrom)
         call == [Result("createTransfer", c, "") EXCEPT
                    !.from = from, !.to = toSecteurId, !.item = item]
     IN IF TransferInvalid(c, formFrom, item, qtyIn, toSecteurId)
        THEN /\ lastResult' = Result("createTransfer", c, "validation")
             /\ UNCHANGED << db_stock_transfers, nOps >>
        ELSE \E currentStock \in FoundStocks(c, from, item) :
               IF Insufficient(currentStock, parseInt(qtyIn))
               THEN /\ lastResult' = [call EXCEPT !.outcome = "insufficient",
                                                  !.quantity = parseInt(qtyIn),
                                                  !.available = currentStock.quantity]
                    /\ UNCHANGED << db_stock_transfers, nOps >>
               ELSE \E ok \in BOOLEAN :
                      /\ nOps' = nOps + 1
                      /\ db_stock_transfers' =
                           IF ok THEN Append(db_stock_transfers,
                                             NewTransfer(from, toSecteurId, item,
                                                         parseInt(qtyIn)))
                           ELSE db_stock_transfers
                      /\ lastResult' =
                           [call EXCEPT !.outcome = IF ok THEN "ok" ELSE "error",
                                        !.quantity = parseInt(qtyIn),
                                        !.available = currentStock.quantity,
                                        !.id = IF ok THEN Len(db_stock_transfers) + 1
                                               ELSE 0]
  /\ UNCHANGED << db_stocks, db_stock_additions, snapshots, procs >>

\* --------------------------------------------------- handleConfirmTransfer
\* "Confirmer" in the dialog of a session of sector admin c that lists transfer
\* id as pending: the status update is written and the sender's stock query is
\* read
handleConfirmTransfer(c, id) ==
  /\ ~isSuperAdmin(c)
  /\ id \in pendingIncomingTransfers(c)
  /\ nOps < MaxOps
  /\ FreeProcs # {}
  /\ nOps' = nOps + 1
  /\ LET transfer == db_stock_transfers[id]
         started == [Idle EXCEPT !.client = c, !.id = id,
                                 !.from = transfer.fromSecteurId,
                                 !.to = transfer.toSecteurId, !.item = transfer.item,
                                 !.quantity = transfer.quantity,
                                 !.startStatus = transfer.status,
                                 !.preFrom = Balance(db_stocks, transfer.fromSecteurId,
                                                     transfer.item),
                                 !.preTo = Balance(db_stocks, transfer.toSecteurId,
                                                   transfer.item)]
     IN \E ok \in BOOLEAN :
          IF ok
          THEN /\ db_stock_transfers' = ConfirmDoc(db_stock_transfers, id)
               /\ \E found \in FirstDocs(db_stocks, transfer.fromSecteurId,
                                         transfer.item) :
                    /\ procs' = [procs EXCEPT ![NewProc] =
                                   [started EXCEPT !.pc = "ct_debit", !.found = found]]
                    /\ lastResult' = ProcResult("confirmTransfer", started, "started")
          ELSE /\ lastResult' = ProcResult("confirmTransfer", started, "error")
               /\ UNCHANGED << db_stock_transfers, procs >>
  /\ UNCHANGED << db_stocks, db_stock_additions, snapshots >>

\* mutant: a transfer whose sender has no stock row is not carried out
NoSender_abort(proc, found) == Idle

\* if (!senderSnapshot.empty) {...} with an empty snapshot: no debit, the
\* handler goes on to the receiver's stock query, which returns `found`
NoSender(proc, found) ==
  [proc EXCEPT !.pc = "ct_credit", !.found = found, !.senderFound = FALSE]

\* mutant: the debit writes the balance read at the call minus the quantity
DebitedRows_readModifyWrite(rows, proc) ==
  [rows EXCEPT ![proc.found].quantity = proc.preFrom - proc.quantity]

\* updateDoc(senderStockDoc, {quantity: increment(-transfer.quantity)})
DebitedRows(rows, proc) == IncrementDoc(rows, proc.found, 0 - proc.quantity)

\* mutant: the handler tries the failed write again later
Caught_retry(P, p) == P

\* catch (error): the error is logged and shown, the invocation is over
Caught(P, p) == [P EXCEPT ![p] = Idle]

\* "Deduct from sender's stock" (skipped when the sender query was empty),
\* then the receiver's stock query
ConfirmTransferDebit(p) ==
  /\ procs[p].pc = "ct_debit"
  /\ IF procs[p].found = 0
     THEN /\ \E found \in FirstDocs(db_stocks, procs[p].to, procs[p].item) :
               procs' = [procs EXCEPT ![p] = NoSender(procs[p], found)]
          /\ lastResult' = ProcResult("confirmTransfer", procs[p], "debit skipped")
          /\ UNCHANGED << db_stocks, snapshots >>
     ELSE \E ok \in BOOLEAN :
            IF ok
            THEN /\ WriteStocks(DebitedRows(db_stocks, procs[p]))
                 /\ \E found \in FirstDocs(db_stocks', procs[p].to, procs[p].item) :
                      procs' = Disturb([procs EXCEPT ![p].pc = "ct_credit",
                                                     ![p].found = found,
                                                     ![p].senderFound = TRUE],
                                       p, procs[p].from, procs[p].item)
                 /\ lastResult' = ProcResult("confirmTransfer", procs[p], "debited")
            ELSE /\ procs' = Caught(procs, p)
                 /\ lastResult' = ProcResult("confirmTransfer", procs[p], "error")
                 /\ UNCHANGED << db_stocks, snapshots >>
  /\ UNCHANGED << db_stock_transfers, db_stock_additions, nOps >>

\* "Add to receiver's stock"
ConfirmTransferCredit(p) ==
  /\ procs[p].pc = "ct_credit"
  /\ \E ok \in BOOLEAN :
       IF ok
       THEN /\ WriteStocks(Upsert(db_stocks, procs[p].found, procs[p].to,
                                  procs[p].item, procs[p].quantity))
            /\ procs' = Disturb([procs EXCEPT ![p] = Idle], p, procs[p].to,
                                procs[p].item)
            /\ lastResult' = ProcResult("confirmTransfer", procs[p], "ok")
       ELSE /\ procs' = Caught(procs, p)
            /\ lastResult' = ProcResult("confirmTransfer", procs[p], "error")
            /\ UNCHANGED << db_stocks, snapshots >>
  /\ UNCHANGED << db_stock_transfers, db_stock_additions, nOps >>

\* ------------------------------------------------------------ specification
\* The forms submitted are the untouched form (article and quantity blank) and
\* the forms with an article chosen and a quantity typed. A sector admin's
\* transfer form carries the admin's own sector; the add-stock form's
\* secteurId, which only a super admin's dialog shows, may hold any sector.
Next ==
  \/ \E c \in Clients, item \in Items \cup {""}, qtyIn \in AddQtyInputs,
        secteurId \in Sects :
       /\ (item = "") <=> (qtyIn = "")
       /\ handleAddStockSubmit(c, item, qtyIn, secteurId)
  \/ \E p \in 1..MaxProcs : AddStockWrite(p)
  \/ \E c \in Clients : \E id \in pendingAdditions(c) : handleConfirmAddition(c, id)
  \/ \E p \in 1..MaxProcs : ConfirmAdditionWrite(p)
  \/ \E c \in Clients, formFrom \in Sects, item \in Items \cup {""},
        qtyIn \in QtyInputs, toSecteurId \in Sects :
       /\ (item = "") <=> (qtyIn = "")
       /\ isSuperAdmin(c) \/ formFrom = fermeId(c)
       /\ handleTransferSubmit(c, formFrom, item, qtyIn, toSecteurId)
  \/ \E c \in Clients : \E id \in pendingIncomingTransfers(c) :
       handleConfirmTransfer(c, id)
  \/ \E p \in 1..MaxProcs : ConfirmTransferDebit(p)
  \/ \E p \in 1..MaxProcs : ConfirmTransferCredit(p)

Spec == Init /\ [][Next /\ UNCHANGED << housingVars, statsVars, listVars >>]_vars

\* ------------------------------------------------- confirming transfers
\* handleConfirmTransfer on a store that holds two pending transfers of
\* ciment from S1 to S2.  The sender's row and the receiver's row are there
\* or not: the page deletes no stock row, a row that is missing was removed
\* elsewhere after the transfer was created.
ConfirmStocks ==
  { sender \o receiver :
      sender \in { << >>, << [secteurId |-> "S1", item |-> "ciment", quantity |-> 3] >> },
      receiver \in { << >>, << [secteurId |-> "S2", item |-> "ciment", quantity |-> 1] >> } }

ConfirmTransfers ==
  << NewTransfer("S1", "S2", "ciment", 1), NewTransfer("S1", "S2", "ciment", 2) >>

InitConfirm ==
  /\ ListClosed
  /\ HousingClosed
  /\ db_stocks \in ConfirmStocks
  /\ db_stock_transfers = ConfirmTransfers
  /\ db_stock_additions = <<>>
  /\ snapshots = << db_stocks >>
  /\ procs = [p \in 1..MaxProcs |-> Idle]
  /\ nOps = 0
  /\ lastResult = NoResult

NextConfirm ==
  \/ \E c \in Clients : \E id \in pendingIncomingTransfers(c) :
       handleConfirmTransfer(c, id)
  \/ \E p \in 1..MaxProcs : ConfirmTransferDebit(p)
  \/ \E p \in 1..MaxProcs : ConfirmTransferCredit(p)

SpecConfirm ==
  InitConfirm /\ [][NextConfirm /\ UNCHANGED << housingVars, statsVars, listVars >>]_vars

\* ------------------------------------------- transfer list of a sector admin
\* "Load transfers based on user role", the branch of a sector admin: two
\* listeners on 'stock_transfers', one per query, whose callbacks share the
\* variables of the effect's closure.

\* the sector admin whose session is open
ListAdmin == "a2"

\* the ids of the transfers `matching` a where-clause, as snapshot.docs.map
\* lists them
Docs(rows, matching) ==
  LET F[n \in 0..Len(rows)] ==
        IF n = 0 THEN <<>>
        ELSE IF n \in matching THEN Append(F[n - 1], n) ELSE F[n - 1]
  IN F[Len(rows)]

\* where('toSecteurId', '==', user?.fermeId || '')
incomingQuery(rows, c) ==
  Docs(rows, { i \in 1..Len(rows) : rows[i].toSecteurId = fermeId(c) })

\* where('fromSecteurId', '==', user?.fermeId || '')
outgoingQuery(rows, c) ==
  Docs(rows, { i \in 1..Len(rows) : rows[i].fromSecteurId = fermeId(c) })

\* self.findIndex(t => t.id === transfer.id), for an id that occurs in self
findIndex(self, id) ==
  CHOOSE i \in 1..Len(self) : self[i] = id /\ \A j \in 1..(i - 1) : self[j] # id

\* allTransfers.filter((transfer, index, self) => index === self.findIndex(...))
uniqueTransfers(allTransfers) ==
  LET F[n \in 0..Len(allTransfers)] ==
        IF n = 0 THEN <<>>
        ELSE IF findIndex(allTransfers, allTransfers[n]) = n
             THEN Append(F[n - 1], allTransfers[n]) ELSE F[n - 1]
  IN F[Len(allTransfers)]

\* uniqueTransfers.sort by createdAt, latest first; the server stamps
\* createdAt in the order of creation, which is the order of the ids here
SortByCreatedAt(list) ==
  LET ids == { list[i] : i \in 1..Len(list) }
  IN [k \in 1..Cardinality(ids) |->
        CHOOSE x \in ids : Cardinality({ y \in ids : y > x }) = k - 1]

\* combineAndSetTransfers: the list handed to setTransfers
combineAndSetTransfers(incoming, outgoing) ==
  SortByCreatedAt(uniqueTransfers(incoming \o outgoing))

\* if (unsubscribeCount >= 2), after unsubscribeCount++
Published(count) == count >= 2

\* the end of both snapshot callbacks: unsubscribeCount++ and, when the test
\* passes, combineAndSetTransfers() on the closure's two lists
CountAndPublish(incoming, outgoing) ==
  /\ unsubscribeCount' = unsubscribeCount + 1
  /\ transfers' = IF Published(unsubscribeCount')
                  THEN combineAndSetTransfers(incoming, outgoing) ELSE transfers

InitList ==
  /\ HousingClosed
  /\ ListClosed
  /\ db_stocks = <<>>
  /\ db_stock_transfers = <<>>
  /\ db_stock_additions = <<>>
  /\ snapshots = << db_stocks >>
  /\ procs = [p \in 1..MaxProcs |-> Idle]
  /\ nOps = 0
  /\ lastResult = NoResult

\* addDoc(collection(db, 'stock_transfers'), ...) of handleTransferSubmit in
\* some session: a transfer between two different sectors is stored
TransferCreated(from, toSecteurId) ==
  /\ Len(db_stock_transfers) < MaxTransfers
  /\ from # toSecteurId
  /\ db_stock_transfers' = Append(db_stock_transfers,
                                  NewTransfer(from, toSecteurId, "ciment", 1))
  /\ UNCHANGED << db_stocks, db_stock_additions, snapshots, procs, nOps, lastResult >>
  /\ UNCHANGED listVars

\* onSnapshot(incomingQuery, ...): the listener calls back when it is attached
\* and whenever the result of its query has changed
IncomingSnapshot ==
  /\ ~lastList.incoming \/ incomingQuery(db_stock_transfers, ListAdmin) # incomingTransfers
  /\ incomingTransfers' = incomingQuery(db_stock_transfers, ListAdmin)
  /\ CountAndPublish(incomingTransfers', outgoingTransfers)
  /\ lastList' = [lastList EXCEPT !.incoming = TRUE,
                                  !.published = @ \/ Published(unsubscribeCount')]
  /\ UNCHANGED outgoingTransfers
  /\ UNCHANGED stockVars

\* onSnapshot(outgoingQuery, ...)
OutgoingSnapshot ==
  /\ ~lastList.outgoing \/ outgoingQuery(db_stock_transfers, ListAdmin) # outgoingTransfers
  /\ outgoingTransfers' = outgoingQuery(db_stock_transfers, ListAdmin)
  /\ CountAndPublish(incomingTransfers, outgoingTransfers')
  /\ lastList' = [lastList EXCEPT !.outgoing = TRUE,
                                  !.published = @ \/ Published(unsubscribeCount')]
  /\ UNCHANGED incomingTransfers
  /\ UNCHANGED stockVars

NextList ==
  \/ \E from \in Sects, toSecteurId \in Sects : TransferCreated(from, toSecteurId)
  \/ IncomingSnapshot
  \/ OutgoingSnapshot

SpecList == InitList /\ [][NextList /\ UNCHANGED << housingVars, statsVars >>]_vars


\* ============================================================ housing page
\* Occupancy sync of the Fermes page (src/unnamed/part_000).  Workers are
\* edited on other pages; the page's listeners deliver the collections into
\* its state, every delivery restarts the one-second debounce of the sync
\* effect, and the timeout runs syncRoomOccupancy on the state it captured.
Chambres == {"", "101"}

\* the workers of farm F1: two men, in room 101 or (one of them) without a
\* room, a woman in room 101, and a man who left (inactif) still filed under
\* room 101; or no worker at all
Worker(id, sexe, chambre, statut) ==
  [id |-> id, fermeId |-> "F1", sexe |-> sexe, chambre |-> chambre, statut |-> statut]

WorkerLists ==
  { << Worker("w1", "homme", c1, "actif"), Worker("w2", "homme", c2, "actif"),
       Worker("w3", "femme", "101", "actif"), Worker("w4", "homme", "101", "inactif") >> :
      << c1, c2 >> \in (Chambres \X Chambres) \ { << "", "" >> } }
  \cup { << >> }

\* createChambers: a room is created empty.  Farm F1 has a men's and a women's
\* room with the same number, farm F2 a men's room with that number.
Chamber(numero, ferme, genre, capaciteTotale) ==
  [numero |-> numero, fermeId |-> ferme, genre |-> genre,
   capaciteTotale |-> capaciteTotale, occupantsActuels |-> 0,
   listeOccupants |-> <<>>, updatedAt |-> 0]

InitRooms ==
  << Chamber("101", "F1", "hommes", 2), Chamber("101", "F1", "femmes", 2),
     Chamber("101", "F2", "hommes", 2) >>

\* the rooms of the store: those of InitRooms, or none yet
RoomLists == { InitRooms, << >> }

\* mutant: every worker is filed under the men's rooms
workerGender_hommes(worker) == "hommes"

\* worker.sexe === 'homme' ? 'hommes' : 'femmes'
workerGender(worker) == IF worker.sexe = "homme" THEN "hommes" ELSE "femmes"

\* `${worker.fermeId}-${worker.chambre}-${workerGender}`
workerKey(worker) ==
  worker.fermeId \o "-" \o worker.chambre \o "-" \o workerGender(worker)

\* `${room.fermeId}-${room.numero}-${room.genre}`
roomKey(room) == room.fermeId \o "-" \o room.numero \o "-" \o room.genre

\* workersByRoom[key] || []: the reduce appends, in the order of the list, the
\* active workers with a chambre and a fermeId under their key
workersByRoom(ws, key) ==
  SelectSeq(ws, LAMBDA worker :
                  /\ worker.statut = "actif" /\ worker.chambre # ""
                  /\ worker.fermeId # ""
                  /\ workerKey(worker) = key)

\* workersInRoom.map(w => w.id)
WorkerIds(ws) == [k \in 1..Len(ws) |-> ws[k].id]

\* new Date() at a write to a room: a date later than the room's updatedAt
Date(doc) == doc.updatedAt + 1

\* mutant: the correction also resets the room's capacity
RoomCorrection_capacity(workersInRoom, date) ==
  [occupantsActuels |-> Len(workersInRoom), listeOccupants |-> WorkerIds(workersInRoom),
   updatedAt |-> date, capaciteTotale |-> 0]

\* the partial document passed to updateRoom
RoomCorrection(workersInRoom, date) ==
  [occupantsActuels |-> Len(workersInRoom), listeOccupants |-> WorkerIds(workersInRoom),
   updatedAt |-> date]

\* updateDocument(id, data): the fields of data replace those of the document
updateRoom(docs, id, data) ==
  [docs EXCEPT ![id] = [f \in DOMAIN docs[id] \cup DOMAIN data |->
                          IF f \in DOMAIN data THEN data[f] ELSE docs[id][f]]]

\* mutant: a room is corrected whenever somebody lives in it
Discrepancy_occupied(room, workersInRoom) == Len(workersInRoom) # 0

\* room.occupantsActuels !== actualOccupants
Discrepancy(room, workersInRoom) == room.occupantsActuels # Len(workersInRoom)

\* the effect of [workers, rooms, updateRoom]: its cleanup clears the timeout
\* and it sets a new one when both lists are non-empty.  A timeout holds the
\* lists its syncRoomOccupancy closes over; `cancelled` notes that it took the
\* place of a timeout that was still pending.
Timeout(pending, ws, rs) ==
  [workers |-> ws, rooms |-> rs, cancelled |-> pending # {}]

\* mutant: the effect sets its timeout whatever the lists hold
BothLoaded_always(ws, rs) == TRUE

\* workers.length > 0 && rooms.length > 0 (updateRoom is always there)
BothLoaded(ws, rs) == Len(ws) > 0 /\ Len(rs) > 0

\* mutant: the effect has no cleanup, the earlier timeout stays pending
Debounce_noCleanup(pending, ws, rs) ==
  IF BothLoaded(ws, rs)
  THEN pending \cup { Timeout(pending, ws, rs) } ELSE pending

Debounce(pending, ws, rs) ==
  IF BothLoaded(ws, rs) THEN { Timeout(pending, ws, rs) } ELSE {}

FreeSyncs == { p \in 1..MaxSyncs : syncs[p].pc = "idle" }

InitSync ==
  /\ ListClosed
  /\ db_stocks = <<>> /\ db_stock_transfers = <<>> /\ db_stock_additions = <<>>
  /\ snapshots = << db_stocks >>
  /\ procs = [p \in 1..MaxProcs |-> Idle]
  /\ nOps = 0 /\ lastResult = NoResult
  /\ db_workers \in WorkerLists
  /\ db_rooms \in RoomLists
  /\ workers = db_workers /\ rooms = db_rooms
  /\ timer = Debounce({}, workers, rooms)
  /\ syncs = [p \in 1..MaxSyncs |-> NoSync]
  /\ nEdits = 0
  /\ lastSync = NoSyncResult
  /\ stats = NoStats

\* other pages edit workers (their room): the collection becomes ws
EditWorkers(ws) ==
  /\ nEdits < MaxEdits
  /\ ws # db_workers
  /\ nEdits' = nEdits + 1
  /\ db_workers' = ws
  /\ lastSync' = [NoSyncResult EXCEPT !.op = "edit"]
  /\ UNCHANGED << db_rooms, workers, rooms, timer, syncs >>

\* the 'workers' listener delivers the collection
DeliverWorkers ==
  /\ workers # db_workers
  /\ workers' = db_workers
  /\ timer' = Debounce(timer, workers', rooms)
  /\ lastSync' = [NoSyncResult EXCEPT !.op = "deliver"]
  /\ UNCHANGED << db_workers, db_rooms, rooms, syncs, nEdits >>

\* mutant: the sync effect does not depend on rooms
DeliverRooms_noEffect ==
  /\ rooms # db_rooms
  /\ rooms' = db_rooms
  /\ lastSync' = [NoSyncResult EXCEPT !.op = "deliver"]
  /\ UNCHANGED << db_workers, db_rooms, workers, timer, syncs, nEdits >>

\* the 'rooms' listener delivers the collection
DeliverRooms ==
  /\ rooms # db_rooms
  /\ rooms' = db_rooms
  /\ timer' = Debounce(timer, workers, rooms')
  /\ lastSync' = [NoSyncResult EXCEPT !.op = "deliver"]
  /\ UNCHANGED << db_workers, db_rooms, workers, syncs, nEdits >>

\* "for (const room of rooms)" from room i on: the loop runs without a pause
\* up to the first room with a discrepancy, where it awaits updateRoom; the
\* result is that room's index, or Len(rs) + 1 when the loop reaches its end
RECURSIVE SyncLoop(_, _, _)
\* mutant: the loop writes every room it comes to
SyncLoop_every(ws, rs, i) == i

SyncLoop(ws, rs, i) ==
  IF i > Len(rs) THEN i
  ELSE IF Discrepancy(rs[i], workersByRoom(ws, roomKey(rs[i]))) THEN i
  ELSE SyncLoop(ws, rs, i + 1)

\* pass p, as it is after the settled write, runs its loop from room `from`
RunPass(p, pass, from, op, committed, ok) ==
  LET to == SyncLoop(pass.workers, pass.rooms, from)
      done == to > Len(pass.rooms)
  IN /\ syncs' = [q \in 1..MaxSyncs |->
                    IF q = p
                    THEN (IF done THEN NoSync ELSE [pass EXCEPT !.pc = "await", !.i = to])
                    ELSE IF committed /\ syncs[q].pc # "idle"
                         THEN [syncs[q] EXCEPT !.clean = FALSE]
                         ELSE syncs[q]]
     /\ lastSync' = [op |-> op, pass |-> p, skipped |-> from..(to - 1),
                     issued |-> IF done THEN 0 ELSE to,
                     settled |-> IF op = "room" THEN pass.i ELSE 0,
                     ok |-> ok, done |-> done,
                     valid |-> done /\ ~pass.failed /\ pass.clean,
                     corrected |-> pass.corrected,
                     burst |-> op = "start" /\ \E t \in timer : t.cancelled]

\* the timeout fires: syncRoomOccupancy starts on the lists of its closure
syncRoomOccupancy ==
  /\ FreeSyncs # {}
  /\ \E t \in timer :
       /\ timer' = timer \ {t}
       /\ RunPass(CHOOSE q \in FreeSyncs : \A r \in FreeSyncs : q <= r,
                  [NoSync EXCEPT !.workers = t.workers, !.rooms = t.rooms,
                                 !.clean = (t.rooms = db_rooms)],
                  1, "start", FALSE, TRUE)
  /\ UNCHANGED << db_workers, db_rooms, workers, rooms, nEdits >>

\* mutant: a failed write ends the pass
Resume_abort(pass, ok) == IF ok THEN pass.i + 1 ELSE Len(pass.rooms) + 1

\* the room the loop goes on with when the awaited updateRoom has settled:
\* the catch inside the loop logs a failure and the next iteration follows
Resume(pass, ok) == pass.i + 1

\* the updateRoom pass p awaits settles: the correction of room pass.i is
\* committed, or the write fails, is caught and logged; the loop goes on
SettleRoom(p, ok) ==
  /\ syncs[p].pc = "await"
  /\ LET pass == syncs[p]
         room == pass.rooms[pass.i]
         workersInRoom == workersByRoom(pass.workers, roomKey(room))
     IN /\ db_rooms' = IF ok
                       THEN updateRoom(db_rooms, pass.i,
                                       RoomCorrection(workersInRoom,
                                                      Date(db_rooms[pass.i])))
                       ELSE db_rooms
        /\ RunPass(p, [pass EXCEPT !.failed = pass.failed \/ ~ok,
                                   !.corrected = pass.corrected \/ ok],
                   Resume(pass, ok), "room", ok, ok)
  /\ UNCHANGED << db_workers, workers, rooms, timer, nEdits >>

SyncRoom(p) == \E ok \in BOOLEAN : SettleRoom(p, ok)

NextSync ==
  \/ \E ws \in WorkerLists : EditWorkers(ws)
  \/ DeliverWorkers
  \/ DeliverRooms
  \/ syncRoomOccupancy
  \/ \E p \in 1..MaxSyncs : SyncRoom(p)

SpecSync == InitSync /\ [][NextSync /\ UNCHANGED << stockVars, statsVars, listVars >>]_vars

\* --------------------------------------------------------- the page at rest
\* The page from any moment on from which nobody edits workers and no write
\* fails: the store and the lists the page holds are as earlier edits and
\* passes left them, a delivery may still be under way.
\* the rooms rs after a pass on workers ws all of whose writes were committed
Reconciled(ws, rs) ==
  [r \in 1..Len(rs) |->
     LET inRoom == workersByRoom(ws, roomKey(rs[r]))
     IN IF Discrepancy(rs[r], inRoom)
        THEN updateRoom(rs, r, RoomCorrection(inRoom, Date(rs[r])))[r]
        ELSE rs[r]]

InitQuiet ==
  /\ ListClosed
  /\ db_stocks = <<>> /\ db_stock_transfers = <<>> /\ db_stock_additions = <<>>
  /\ snapshots = << db_stocks >>
  /\ procs = [p \in 1..MaxProcs |-> Idle]
  /\ nOps = 0 /\ lastResult = NoResult
  /\ db_workers \in WorkerLists
  /\ db_rooms \in { Reconciled(ws, InitRooms) : ws \in WorkerLists }
  /\ workers \in WorkerLists
  /\ rooms \in { db_rooms, InitRooms }
  /\ timer = Debounce({}, workers, rooms)
  /\ syncs = [p \in 1..MaxSyncs |-> NoSync]
  /\ nEdits = 0
  /\ lastSync = NoSyncResult
  /\ stats = NoStats

NextQuiet ==
  \/ DeliverWorkers
  \/ DeliverRooms
  \/ syncRoomOccupancy
  \/ \E p \in 1..MaxSyncs : SettleRoom(p, TRUE)

\* the listeners deliver, the timeout fires and an awaited write settles
SpecQuiet ==
  /\ InitQuiet
  /\ [][NextQuiet /\ UNCHANGED << stockVars, statsVars, listVars >>]_vars
  /\ WF_housingVars(DeliverWorkers)
  /\ WF_housingVars(DeliverRooms)
  /\ WF_housingVars(syncRoomOccupancy)
  /\ \A p \in 1..MaxSyncs : WF_housingVars(SettleRoom(p, TRUE))

\* ------------------------------------------------------------ statistics
\* getFermeStats, the figures of a farm's card, on the lists the page holds.
\* A percentage is kept as the exact fraction num / den; within the sizes
\* below the doubles of the code compare and round as the fractions do.
Capacities == {0, 1, 3, 21}

\* up to MaxMen men filed under room 101 of F1, a man of F1 without a room or
\* not, a woman in room 101, active or not, and a man in room 101 of F2
StatsWorkerLists ==
  { [k \in 1..men |-> Worker("m" \o ToString(k), "homme", "101", "actif")]
      \o (IF free THEN << Worker("u1", "homme", "", "actif") >> ELSE << >>)
      \o << Worker("w3", "femme", "101", st),
            [Worker("x1", "homme", "101", "actif") EXCEPT !.fermeId = "F2"] >> :
      men \in 0..MaxMen, free \in BOOLEAN, st \in {"actif", "inactif"} }

StatsRoomLists ==
  { << Chamber("101", "F1", "hommes", ch), Chamber("101", "F1", "femmes", cf),
       Chamber("101", "F2", "hommes", 2) >> :
      ch \in Capacities, cf \in {0, 1} }

InitStats ==
  /\ ListClosed
  /\ db_stocks = <<>> /\ db_stock_transfers = <<>> /\ db_stock_additions = <<>>
  /\ snapshots = << db_stocks >>
  /\ procs = [p \in 1..MaxProcs |-> Idle]
  /\ nOps = 0 /\ lastResult = NoResult
  /\ db_workers \in StatsWorkerLists
  /\ db_rooms \in StatsRoomLists
  /\ workers = db_workers /\ rooms = db_rooms
  /\ timer = {}
  /\ syncs = [p \in 1..MaxSyncs |-> NoSync]
  /\ nEdits = 0
  /\ lastSync = NoSyncResult
  /\ stats = NoStats

\* mutant: the statistics count the active workers of every farm
fermeWorkers_all(ws, ferme) == SelectSeq(ws, LAMBDA w : w.statut = "actif")

\* workers.filter(w => w.fermeId === fermeId && w.statut === 'actif')
fermeWorkers(ws, ferme) ==
  SelectSeq(ws, LAMBDA w : w.fermeId = ferme /\ w.statut = "actif")

\* rooms.filter(r => r.fermeId === fermeId)
fermeRooms(rs, ferme) == SelectSeq(rs, LAMBDA r : r.fermeId = ferme)

\* worker.sexe === 'homme' ? 'hommes' : 'femmes'
workerGenderType(worker) == IF worker.sexe = "homme" THEN "hommes" ELSE "femmes"

\* workersByRoom[`${room.numero}-${room.genre}`] || 0, the reduce having
\* counted the workers with a chambre under `${worker.chambre}-${workerGenderType}`
workersInRoom(fw, room) ==
  Len(SelectSeq(fw, LAMBDA worker :
                      /\ worker.chambre # ""
                      /\ worker.chambre \o "-" \o workerGenderType(worker)
                           = room.numero \o "-" \o room.genre))

Min(a, b) == IF a <= b THEN a ELSE b

\* total > 0 ? (part / total) * 100 : 0
Percent(part, total) ==
  IF total > 0 THEN [num |-> part * 100, den |-> total] ELSE [num |-> 0, den |-> 1]

\* Math.round: the nearest integer, halves upwards
MathRound(x) == (2 * x.num + x.den) \div (2 * x.den)

\* x > n, x >= n, x <= n for a percentage x and an integer n
Above(x, n) == x.num > n * x.den

AtLeast(x, n) == x.num >= n * x.den

AtMost(x, n) == x.num <= n * x.den

RECURSIVE Sum(_)
Sum(ns) == IF ns = << >> THEN 0 ELSE Head(ns) + Sum(Tail(ns))

\* fermeRooms.map(room => ({...}))
roomStats(fw, fr) ==
  [k \in 1..Len(fr) |->
     LET room == fr[k]
         workersCount == workersInRoom(fw, room)
         capacityUsed == Min(workersCount, room.capaciteTotale)
     IN [room |-> room,
         workersCount |-> workersCount,
         isOccupied |-> workersCount > 0,
         capacityUsed |-> capacityUsed,
         utilizationRate |-> Percent(capacityUsed, room.capaciteTotale),
         isOvercapacity |-> workersCount > room.capaciteTotale]]

\* the object getFermeStats returns
FermeStats(ws, rs, ferme) ==
  LET fw == fermeWorkers(ws, ferme)
      fr == fermeRooms(rs, ferme)
      rstats == roomStats(fw, fr)
      occupiedRooms == Len(SelectSeq(rstats, LAMBDA stat : stat.isOccupied))
      totalCapacity == Sum([k \in 1..Len(fr) |-> fr[k].capaciteTotale])
      totalOccupied == Sum([k \in 1..Len(rstats) |-> rstats[k].capacityUsed])
      averageUtilization == Percent(totalOccupied, totalCapacity)
      workersWithoutRooms == Len(SelectSeq(fw, LAMBDA w : w.chambre = ""))
      overcapacityRooms == Len(SelectSeq(rstats, LAMBDA stat : stat.isOvercapacity))
  IN [fermeId |-> ferme,
      totalOuvriers |-> Len(fw),
      totalChambres |-> Len(fr),
      chambresOccupees |-> occupiedRooms,
      chambresVides |-> Len(fr) - occupiedRooms,
      totalCapacity |-> totalCapacity,
      totalOccupied |-> totalOccupied,
      placesDisponibles |-> totalCapacity - totalOccupied,
      tauxOccupation |-> MathRound(averageUtilization),
      roomStats |-> rstats,
      workersWithoutRooms |-> workersWithoutRooms,
      overcapacityRooms |-> overcapacityRooms,
      hasIssues |-> workersWithoutRooms > 0 \/ overcapacityRooms > 0,
      isWellUtilized |-> AtLeast(averageUtilization, 60) /\ AtMost(averageUtilization, 90),
      needsAttention |-> \/ workersWithoutRooms > 0
                         \/ overcapacityRooms > 0
                         \/ Above(averageUtilization, 95)]

\* a farm's card is rendered
getFermeStats(ferme) ==
  /\ stats' = FermeStats(workers, rooms, ferme)
  /\ UNCHANGED << stockVars, housingVars, listVars >>

NextStats == \E ferme \in {"F1", "F2"} : getFermeStats(ferme)

SpecStats == InitStats /\ [][NextStats]_vars

\* ===================================================================== claims
\* a step of handler op: every step of a handler records what it did
Reports(op) == lastResult'.op = op

\* invocation p takes its last step and reports success
Completes(p, pc) ==
  procs[p].pc = pc /\ procs'[p].pc = "idle" /\ lastResult'.outcome = "ok"

\* C1: a confirmTransfer that runs to the end on a transfer that was pending,
\* whose sender has a stock row, and whose two balances no other handler wrote
\* meanwhile, leaves the sender with its balance at the call minus the
\* quantity and the receiver with its balance at the call (0 without a row)
\* plus the quantity, so their sum is unchanged.  Whatever else runs in
\* between, its debit takes exactly the quantity from the sender's balance and
\* its credit adds exactly the quantity to the receiver's.
C1_ConfirmTransferMovesQuantity ==
  [][\A p \in 1..MaxProcs :
      /\ ( /\ procs[p].pc = "ct_debit" /\ procs'[p].pc = "ct_credit"
           /\ procs[p].found # 0 )
         => /\ Balance(db_stocks', procs[p].from, procs[p].item)
                 = Balance(db_stocks, procs[p].from, procs[p].item) - procs[p].quantity
            /\ Balance(db_stocks', procs[p].to, procs[p].item)
                 = Balance(db_stocks, procs[p].to, procs[p].item)
      /\ Completes(p, "ct_credit")
         => /\ Balance(db_stocks', procs[p].to, procs[p].item)
                 = Balance(db_stocks, procs[p].to, procs[p].item) + procs[p].quantity
            /\ Balance(db_stocks', procs[p].from, procs[p].item)
                 = Balance(db_stocks, procs[p].from, procs[p].item)
      /\ ( /\ Completes(p, "ct_credit")
           /\ procs[p].startStatus = "pending"
           /\ procs[p].senderFound /\ procs[p].clean )
         => /\ Balance(db_stocks', procs[p].from, procs[p].item)
                 = procs[p].preFrom - procs[p].quantity
            /\ Balance(db_stocks', procs[p].to, procs[p].item)
                 = procs[p].preTo + procs[p].quantity
            /\ Balance(db_stocks', procs[p].from, procs[p].item)
                 + Balance(db_stocks', procs[p].to, procs[p].item)
                 = procs[p].preFrom + procs[p].preTo]_vars

C1_Witness ==
  /\ lastResult.op = "confirmTransfer" /\ lastResult.outcome = "ok"
  /\ lastResult.startStatus = "pending"
  /\ lastResult.senderFound /\ lastResult.clean

\* C2: a confirmTransfer call on a transfer that is already confirmed is
\* rejected: it never gets to the debit or the credit of the stock rows.
C2_SecondConfirmTransferRejected ==
  \A p \in 1..MaxProcs :
    procs[p].pc \in {"ct_debit", "ct_credit"} => procs[p].startStatus = "pending"

\* C3: a confirmAddition call on an addition that is already confirmed is
\* rejected: it never gets to the upsert of the sector's stock row.
C3_SecondConfirmAdditionRejected ==
  \A p \in 1..MaxProcs :
    procs[p].pc = "ca_write" => procs[p].startStatus = "pending"

\* C4: a createTransfer call that passes the form validation is rejected as
\* insufficient exactly when the requested quantity exceeds the quantity the
\* sender holds in the store at the call, and the amount it reports as
\* available is that quantity.
C4_InsufficientIffExceedsStore ==
  [][( /\ Reports("createTransfer")
       /\ lastResult'.outcome \in {"insufficient", "ok", "error"} )
     => /\ (lastResult'.outcome = "insufficient")
             <=> (lastResult'.quantity
                    > Balance(db_stocks, lastResult'.from, lastResult'.item))
        /\ lastResult'.outcome = "insufficient"
             => lastResult'.available
                  = Balance(db_stocks, lastResult'.from, lastResult'.item)]_vars

\* C5: every stock row has quantity >= 0.
C5_QuantityNonNegative ==
  \A i \in 1..Len(db_stocks) : db_stocks[i].quantity >= 0

\* C6: there is at most one stock row per (secteurId, item).
C6_OneRowPerSecteurItem ==
  \A s \in Sects, it \in Items : Cardinality(StockQuery(db_stocks, s, it)) <= 1

\* C7: after a confirmation of a pending transfer or addition was reported as
\* failed, the record is still pending.
C7_FailedConfirmLeavesPending ==
  ( /\ lastResult.op \in {"confirmTransfer", "confirmAddition"}
    /\ lastResult.outcome = "error"
    /\ lastResult.startStatus = "pending" )
  => IF lastResult.op = "confirmTransfer"
     THEN db_stock_transfers[lastResult.id].status = "pending"
     ELSE db_stock_additions[lastResult.id].status = "pending"

\* C8: a request that fails validation writes nothing: a createTransfer or
\* addStock call that is rejected (required field, same sector, quantity <= 0,
\* insufficient stock) leaves the three collections as they were, and a call
\* that is not rejected has distinct sectors, a quantity > 0 and, for a
\* transfer, found a sender row in the session's stock list that covers the
\* quantity.
C8_RejectedRequestWritesNothing ==
  [][/\ lastResult'.outcome \in {"validation", "insufficient"}
        => UNCHANGED store
     /\ ( /\ Reports("createTransfer")
          /\ lastResult'.outcome \in {"ok", "error"} )
        => /\ lastResult'.from # lastResult'.to
           /\ lastResult'.quantity > 0
           /\ lastResult'.available >= lastResult'.quantity
     /\ ( /\ Reports("addStock")
          /\ lastResult'.outcome \in {"ok", "error", "started"} )
        => lastResult'.quantity > 0]_vars

C8_Witness ==
  /\ lastResult.op = "createTransfer" /\ lastResult.outcome = "insufficient"
  /\ db_stocks # <<>>

\* C9: a successful createTransfer appends one pending transfer, a successful
\* addStock by a super admin appends one pending addition for the chosen
\* sector, and neither changes the stock rows.
C9_PendingRecordChangesNoStock ==
  [][/\ ( Reports("createTransfer") /\ lastResult'.outcome = "ok" )
        => /\ db_stocks' = db_stocks
           /\ db_stock_additions' = db_stock_additions
           /\ db_stock_transfers' =
                Append(db_stock_transfers,
                       [fromSecteurId |-> lastResult'.from,
                        toSecteurId |-> lastResult'.to, item |-> lastResult'.item,
                        quantity |-> lastResult'.quantity, status |-> "pending"])
     /\ ( /\ Reports("addStock") /\ lastResult'.outcome = "ok"
          /\ isSuperAdmin(lastResult'.client) )
        => /\ db_stocks' = db_stocks
           /\ db_stock_transfers' = db_stock_transfers
           /\ db_stock_additions' =
                Append(db_stock_additions,
                       [secteurId |-> lastResult'.to, item |-> lastResult'.item,
                        quantity |-> lastResult'.quantity, status |-> "pending",
                        addedBy |-> lastResult'.client])]_vars

C9_Witness ==
  /\ lastResult.op = "createTransfer" /\ lastResult.outcome = "ok"
  /\ db_stock_transfers[lastResult.id].status = "pending"
  /\ db_stocks # <<>>

\* C10: addStock by a sector admin with quantity q > 0 creates no addition;
\* when its existence query found no row of the admin's sector and the item it
\* creates one with quantity q, otherwise it adds q to the row it found.
C10_AdminAddStockUpserts ==
  [][/\ ( /\ Reports("addStock") /\ lastResult'.outcome = "started" )
        => /\ UNCHANGED store
           /\ \E p \in 1..MaxProcs :
                /\ procs[p].pc = "idle" /\ procs'[p].pc = "as_write"
                /\ procs'[p].to = fermeId(procs'[p].client)
                /\ procs'[p].found = 0
                     <=> StockQuery(db_stocks, procs'[p].to, procs'[p].item) = {}
                /\ procs'[p].found # 0
                     => procs'[p].found
                          \in StockQuery(db_stocks, procs'[p].to, procs'[p].item)
     /\ \A p \in 1..MaxProcs :
          Completes(p, "as_write")
          => /\ ~isSuperAdmin(procs[p].client) /\ procs[p].quantity > 0
             /\ db_stock_additions' = db_stock_additions
             /\ db_stock_transfers' = db_stock_transfers
             /\ IF procs[p].found = 0
                THEN db_stocks' =
                       Append(db_stocks, [secteurId |-> fermeId(procs[p].client),
                                          item |-> procs[p].item,
                                          quantity |-> procs[p].quantity])
                ELSE db_stocks' =
                       [db_stocks EXCEPT ![procs[p].found].quantity =
                          db_stocks[procs[p].found].quantity + procs[p].quantity]]_vars

C10_Witness ==
  /\ lastResult.op = "addStock" /\ lastResult.outcome = "ok"
  /\ ~isSuperAdmin(lastResult.client)
  /\ lastResult.id # 0
  /\ db_stocks[lastResult.id].quantity > lastResult.quantity

\* a record of a workflow collection keeps its fields, and its status stays or
\* moves from pending to confirmed
KeepsRecords(rows, rowsAfter) ==
  /\ Len(rowsAfter) >= Len(rows)
  /\ \A i \in 1..Len(rows) :
       \/ rowsAfter[i] = rows[i]
       \/ /\ rows[i].status = "pending"
          /\ rowsAfter[i] = [rows[i] EXCEPT !.status = "confirmed"]

\* C11: no step removes a transfer or an addition, changes its item, quantity
\* or sector fields, or moves its status any other way than from pending to
\* confirmed; a confirmed record is never changed again.
C11_StatusOnlyMovesToConfirmed ==
  [][/\ KeepsRecords(db_stock_transfers, db_stock_transfers')
     /\ KeepsRecords(db_stock_additions, db_stock_additions')]_vars

C11_Witness ==
  /\ lastResult.op \in {"confirmTransfer", "confirmAddition"}
  /\ lastResult.startStatus = "confirmed"
  /\ lastResult.outcome = "started"

\* C12: a confirmation of a transfer runs in a session of the admin of the
\* transfer's toSecteurId and a confirmation of an addition in a session of the
\* admin of the addition's secteurId, never of a super admin; and a step that
\* changes a sector's balance is a step of that sector's own admin, or the
\* debit of a transfer from that sector confirmed by the receiving sector's
\* admin.
C12_OnlyReceiverConfirms ==
  [][/\ \A p \in 1..MaxProcs :
          procs'[p].pc \in {"ct_debit", "ct_credit"}
          => /\ ~isSuperAdmin(procs'[p].client)
             /\ fermeId(procs'[p].client) = db_stock_transfers[procs'[p].id].toSecteurId
     /\ \A p \in 1..MaxProcs :
          procs'[p].pc = "ca_write"
          => /\ ~isSuperAdmin(procs'[p].client)
             /\ fermeId(procs'[p].client) = db_stock_additions[procs'[p].id].secteurId
     /\ \A s \in Sects, it \in Items :
          Balance(db_stocks', s, it) # Balance(db_stocks, s, it)
          => /\ ~isSuperAdmin(lastResult'.client)
             /\ \/ fermeId(lastResult'.client) = s
                \/ /\ lastResult'.op = "confirmTransfer"
                   /\ lastResult'.from = s
                   /\ fermeId(lastResult'.client) = lastResult'.to]_vars

C12_Witness ==
  /\ lastResult.op = "confirmTransfer" /\ lastResult.outcome = "debited"
  /\ fermeId(lastResult.client) = lastResult.to
  /\ fermeId(lastResult.client) # lastResult.from

\* ---------------------------------------------------------- occupancy sync
\* a step of syncRoomOccupancy: its start and each resumption after a write
SyncStep == lastSync'.op \in {"start", "room"}

\* the workers the pass taking the step captured
SyncWorkers ==
  IF lastSync'.op = "start" THEN workers ELSE syncs[lastSync'.pass].workers

\* the rooms the pass taking the step captured
SyncRooms ==
  IF lastSync'.op = "start" THEN rooms ELSE syncs[lastSync'.pass].rooms

\* the step ends a pass none of whose writes failed and that saw the stored
\* rooms, no other pass writing meanwhile
PassDone == SyncStep /\ lastSync'.valid

GenderMatches(worker, room) ==
  \/ worker.sexe = "homme" /\ room.genre = "hommes"
  \/ worker.sexe = "femme" /\ room.genre = "femmes"

\* the active workers of the room's farm whose chambre is the room's numero
\* and whose gender matches the room's genre
Occupants(ws, room) ==
  { k \in 1..Len(ws) : /\ ws[k].statut = "actif"
                       /\ ws[k].fermeId = room.fermeId
                       /\ ws[k].chambre = room.numero
                       /\ GenderMatches(ws[k], room) }

TrueCount(ws, room) == Cardinality(Occupants(ws, room))

OccupantIds(ws, room) == { ws[k].id : k \in Occupants(ws, room) }

ListedIds(room) == { room.listeOccupants[k] : k \in 1..Len(room.listeOccupants) }

\* C13: after a pass over snapshots of workers and rooms in which no write
\* failed, every room's occupantsActuels is the number of active workers of the
\* same farm whose chambre is its numero and whose gender matches its genre;
\* the room with the same numero and the other genre does not count them
C13_CountsMatchAfterPass ==
  [][PassDone =>
       \A r \in 1..Len(db_rooms') :
         db_rooms'[r].occupantsActuels = TrueCount(SyncWorkers, db_rooms'[r])]_vars

\* a pass has corrected rooms: two men in the men's room 101 of F1, one woman
\* in the women's room 101, nobody in room 101 of F2
C13_Witness ==
  /\ lastSync.done /\ lastSync.valid /\ lastSync.corrected
  /\ db_rooms[1].occupantsActuels = 2
  /\ db_rooms[2].occupantsActuels = 1
  /\ db_rooms[3].occupantsActuels = 0

\* C14: after a pass with no store failure, every room's listeOccupants is
\* the set of ids of the active workers matching the room, also when the
\* room's members changed and their number did not
C14_ListsMatchAfterPass ==
  [][PassDone =>
       \A r \in 1..Len(db_rooms') :
         ListedIds(db_rooms'[r]) = OccupantIds(SyncWorkers, db_rooms'[r])]_vars

\* C15: once a pass has applied its corrections, a second pass over the rooms
\* it left and the same workers writes no room
C15_SecondPassWritesNothing ==
  [][PassDone => SyncLoop(SyncWorkers, db_rooms', 1) > Len(db_rooms')]_vars

\* a pass that had rooms to correct has ended
C15_Witness ==
  /\ lastSync.op = "room" /\ lastSync.done /\ lastSync.valid /\ lastSync.corrected
  /\ \E r \in 1..Len(db_rooms) : db_rooms[r].occupantsActuels > 0

\* C19: during a pass a room is written if and only if its stored
\* occupantsActuels differs from its true count, whatever its listeOccupants holds
C19_WrittenIffCountDiffers ==
  [][SyncStep =>
       /\ \A r \in lastSync'.skipped :
            SyncRooms[r].occupantsActuels = TrueCount(SyncWorkers, SyncRooms[r])
       /\ lastSync'.issued # 0 =>
            SyncRooms[lastSync'.issued].occupantsActuels
              # TrueCount(SyncWorkers, SyncRooms[lastSync'.issued])]_vars

\* a pass has gone past the men's room without writing it: the room lists w1,
\* who left, and not w2, who moved in
C19_Witness ==
  /\ lastSync.op = "start" /\ 1 \in lastSync.skipped
  /\ rooms[1].listeOccupants = << "w1" >>
  /\ workers[1].chambre = "" /\ workers[2].chambre = "101"

\* C20: a correction changes the room's occupantsActuels, listeOccupants and
\* timestamp only: its numero, fermeId, genre and capaciteTotale, every other
\* room and every worker are as before
C20_CorrectionFrame ==
  [][SyncStep =>
       /\ db_workers' = db_workers
       /\ Len(db_rooms') = Len(db_rooms)
       /\ \A r \in 1..Len(db_rooms) :
            IF lastSync'.op = "room" /\ lastSync'.ok /\ r = lastSync'.settled
            THEN /\ DOMAIN db_rooms'[r] = DOMAIN db_rooms[r]
                 /\ \A f \in DOMAIN db_rooms[r]
                            \ {"occupantsActuels", "listeOccupants", "updatedAt"} :
                      db_rooms'[r][f] = db_rooms[r][f]
            ELSE db_rooms'[r] = db_rooms[r]]_vars

\* a correction of the men's room has been committed
C20_Witness ==
  /\ lastSync.op = "room" /\ lastSync.ok /\ lastSync.settled = 1
  /\ db_rooms[1].updatedAt > 0
  /\ db_rooms[1].listeOccupants # << >>

\* ---------------------------------------------------------------- statistics
\* getFermeStats has returned the figures of a farm
HasStats == stats # NoStats

\* the rooms of the farm of the figures, in the order of roomStats
StatsRooms == fermeRooms(rooms, stats.fermeId)

\* a percentage is the integer n
IsInteger(x, n) == x.num = n * x.den

\* round(part / total * 100)
RoundedPercent(part, total) == (200 * part + total) \div (2 * total)

\* C16: a room's occupancy rate is round(min(trueCount, capacity) / capacity
\* * 100), 0 when the capacity is 0, and never above 100
C16_RoomRateRounded ==
  HasStats =>
    \A k \in 1..Len(stats.roomStats) :
      LET room == StatsRooms[k]
          rate == stats.roomStats[k].utilizationRate
          used == Min(TrueCount(workers, room), room.capaciteTotale)
      IN /\ IsInteger(rate, IF room.capaciteTotale = 0 THEN 0
                            ELSE RoundedPercent(used, room.capaciteTotale))
         /\ AtMost(rate, 100)

\* at least one active worker of the farm has no room
SomeUnassigned ==
  \E k \in 1..Len(workers) :
    /\ workers[k].fermeId = stats.fermeId /\ workers[k].statut = "actif"
    /\ workers[k].chambre = ""

\* at least one room of the farm holds more workers than its capacity
SomeOvercapacity ==
  \E k \in 1..Len(StatsRooms) :
    TrueCount(workers, StatsRooms[k]) > StatsRooms[k].capaciteTotale

\* C17: needsAttention is true exactly when an active worker has no room, or
\* a room holds more than its capacity, or the reported (rounded) occupancy
\* rate is above 95
C17_NeedsAttention ==
  HasStats =>
    (stats.needsAttention <=>
       SomeUnassigned \/ SomeOvercapacity \/ stats.tauxOccupation > 95)

\* C18: isWellUtilized is true exactly when the reported (rounded) occupancy
\* rate lies in [60, 90]
C18_WellUtilized ==
  HasStats =>
    (stats.isWellUtilized <=>
       stats.tauxOccupation >= 60 /\ stats.tauxOccupation <= 90)

\* the rooms after room r, in the lists the pass captured, whose stored count
\* differs from their true count
LaterDiffering(r) ==
  { q \in (r + 1)..Len(SyncRooms) :
      SyncRooms[q].occupantsActuels # TrueCount(SyncWorkers, SyncRooms[q]) }

\* C21: when the write of a room's correction fails, the room is left as it
\* was and the pass goes on: the next later room whose count differs has its
\* correction attempted (and so, in turn, every later one), and the pass ends
\* in the ordinary way when there is none
C21_FailedWriteSkipped ==
  [][(lastSync'.op = "room" /\ ~lastSync'.ok) =>
       LET r == lastSync'.settled
       IN /\ db_rooms' = db_rooms
          /\ IF LaterDiffering(r) = {}
             THEN lastSync'.done /\ lastSync'.issued = 0
                  /\ syncs'[lastSync'.pass].pc = "idle"
             ELSE /\ ~lastSync'.done
                  /\ lastSync'.issued \in LaterDiffering(r)
                  /\ \A q \in LaterDiffering(r) : lastSync'.issued <= q
                  /\ syncs'[lastSync'.pass].pc = "await"
                  /\ syncs'[lastSync'.pass].i = lastSync'.issued]_vars

\* the write of the men's room has failed and the pass has gone on to write
\* the women's room
C21_Witness ==
  /\ lastSync.op = "room" /\ ~lastSync.ok /\ lastSync.settled = 1
  /\ lastSync.issued = 2
  /\ db_rooms[1].occupantsActuels = 0 /\ db_rooms[1].updatedAt = 0

\* the timeout the sync effect sets on the lists the page holds now
Latest(t) == t.workers = workers' /\ t.rooms = rooms'

InFlight == { p \in 1..MaxSyncs : syncs[p].pc # "idle" }

AtRest ==
  /\ workers = db_workers /\ rooms = db_rooms
  /\ timer = {} /\ InFlight = {}

\* the last thing that happened is a pass that ran through without a write
LastPassWroteNothing ==
  /\ lastSync.op = "start" /\ lastSync.done /\ lastSync.issued = 0
  /\ \A r \in 1..Len(db_rooms) :
       db_rooms[r].occupantsActuels = TrueCount(db_workers, db_rooms[r])

\* C26: the reactive loop quiesces: with no edit from outside and no failing
\* write the page comes, after finitely many passes, to rest for good, the
\* last pass (there is one when workers and rooms are non-empty) having
\* written no room
C26_Quiesces ==
  <>[](AtRest /\ (BothLoaded(workers, rooms) => LastPassWroteNothing))

\* the page is at rest after passes that wrote rooms and re-triggered a pass
\* through the rooms listener
C26_Witness ==
  /\ AtRest /\ LastPassWroteNothing
  /\ \E r \in 1..Len(db_rooms) : db_rooms[r].updatedAt > 1

\* C27: for every farm and every room of it, the number of workers the
\* statistics count in the room (key chambre-gender among the farm's active
\* workers) is the number the sync pass counts in it (key
\* fermeId-chambre-gender among the active workers) on the same lists
C27_StatsCountIsSyncCount ==
  HasStats =>
    \A k \in 1..Len(stats.roomStats) :
      stats.roomStats[k].workersCount
        = Len(workersByRoom(workers, roomKey(StatsRooms[k])))

\* the figures of F2 count its one man in room 101 while men of F1 live in
\* the room of the same number of their farm
C27_Witness ==
  /\ HasStats /\ stats.fermeId = "F2"
  /\ stats.roomStats[1].workersCount = 1
  /\ Len(workersByRoom(workers, roomKey(rooms[1]))) >= 2

\* ------------------------------------------------------ confirming transfers
\* the quantity of item it held by all sectors
TotalQty(rows, it) == SumQty(rows, { i \in 1..Len(rows) : rows[i].item = it })

\* C23: confirmTransfer on a pending transfer whose sender has no stock row
\* for the item skips the debit, still sets the transfer to confirmed and
\* still credits the receiver, so the item's total over the sectors grows by
\* the transfer's quantity
C23_NoSenderRowStillCredits ==
  [][\A p \in 1..MaxProcs :
      /\ ( /\ procs[p].pc = "ct_debit" /\ procs[p].found = 0
           /\ procs'[p].pc # "ct_debit" )
         => /\ db_stocks' = db_stocks
            /\ procs'[p].pc = "ct_credit"
            /\ db_stock_transfers'[procs[p].id].status = "confirmed"
      /\ (Completes(p, "ct_credit") /\ ~procs[p].senderFound)
         => /\ Balance(db_stocks', procs[p].to, procs[p].item)
                 = Balance(db_stocks, procs[p].to, procs[p].item) + procs[p].quantity
            /\ TotalQty(db_stocks', procs[p].item)
                 = TotalQty(db_stocks, procs[p].item) + procs[p].quantity
            /\ db_stock_transfers'[procs[p].id].status = "confirmed"
      /\ ( /\ Completes(p, "ct_credit") /\ ~procs[p].senderFound
           /\ procs[p].startStatus = "pending" /\ procs[p].clean )
         => TotalQty(db_stocks', procs[p].item)
              = procs[p].preFrom + procs[p].preTo + procs[p].quantity]_vars

\* a confirmation of a pending transfer has run to its end without a sender
\* row: the receiver holds the quantity and the sender nothing
C23_Witness ==
  /\ lastResult.op = "confirmTransfer" /\ lastResult.outcome = "ok"
  /\ lastResult.startStatus = "pending"
  /\ ~lastResult.senderFound /\ lastResult.clean
  /\ StockQuery(db_stocks, lastResult.from, lastResult.item) = {}
  /\ Balance(db_stocks, lastResult.to, lastResult.item) >= lastResult.quantity
  /\ db_stock_transfers[lastResult.id].status = "confirmed"

\* C24: confirmTransfer writes the status, then the sender's debit, then the
\* receiver's credit; when the credit fails after the debit was committed the
\* sender stays debited, the receiver is not credited and nothing is retried
C24_FailedCreditKeepsDebit ==
  [][/\ \A p \in 1..MaxProcs :
         /\ procs'[p].pc = "ct_debit" /\ procs[p].pc # "ct_debit"
            => /\ procs[p].pc = "idle"
               /\ db_stock_transfers'[procs'[p].id].status = "confirmed"
               /\ db_stocks' = db_stocks
         /\ procs'[p].pc = "ct_credit" /\ procs[p].pc # "ct_credit"
            => /\ procs[p].pc = "ct_debit"
               /\ Balance(db_stocks', procs[p].to, procs[p].item)
                    = Balance(db_stocks, procs[p].to, procs[p].item)
    /\ ( /\ Reports("confirmTransfer") /\ lastResult'.outcome = "error"
         /\ lastResult'.senderFound )
       => \E p \in 1..MaxProcs :
            /\ procs[p].pc = "ct_credit" /\ procs'[p].pc = "idle"
            /\ db_stocks' = db_stocks
            /\ db_stock_transfers' = db_stock_transfers
            /\ procs[p].clean /\ procs[p].startStatus = "pending"
                 => /\ Balance(db_stocks', procs[p].from, procs[p].item)
                         = procs[p].preFrom - procs[p].quantity
                    /\ Balance(db_stocks', procs[p].to, procs[p].item)
                         = procs[p].preTo]_vars

\* the credit of a pending transfer has failed after its debit
C24_Witness ==
  /\ lastResult.op = "confirmTransfer" /\ lastResult.outcome = "error"
  /\ lastResult.startStatus = "pending"
  /\ lastResult.senderFound /\ lastResult.clean
  /\ db_stock_transfers[lastResult.id].status = "confirmed"
  /\ \A p \in 1..MaxProcs : procs[p].pc = "idle"

\* both transfers have been confirmed, each once, and no write has failed:
\* two debits and two credits have been committed
BothConfirmed ==
  /\ nOps = 2
  /\ \A p \in 1..MaxProcs : procs[p].pc = "idle"
  /\ \A i \in 1..Len(db_stock_transfers) : db_stock_transfers[i].status = "confirmed"
  /\ Len(snapshots) = 5

\* C25: two distinct pending transfers on the same existing sender and
\* receiver rows, confirmed at the same time with their store operations
\* interleaved in any order and no failure, leave the balances that
\* confirming one after the other leaves: no debit or credit is lost
C25_ConcurrentConfirmsAdd ==
  ( /\ BothConfirmed
    /\ StockQuery(snapshots[1], "S1", "ciment") # {}
    /\ StockQuery(snapshots[1], "S2", "ciment") # {} )
  => /\ Balance(db_stocks, "S1", "ciment")
          = Balance(snapshots[1], "S1", "ciment")
              - db_stock_transfers[1].quantity - db_stock_transfers[2].quantity
     /\ Balance(db_stocks, "S2", "ciment")
          = Balance(snapshots[1], "S2", "ciment")
              + db_stock_transfers[1].quantity + db_stock_transfers[2].quantity

\* the two confirmations ran interleaved: the second debit was committed
\* before the first credit
C25_Witness ==
  /\ BothConfirmed
  /\ StockQuery(snapshots[1], "S1", "ciment") # {}
  /\ StockQuery(snapshots[1], "S2", "ciment") # {}
  /\ Balance(snapshots[3], "S1", "ciment") = 0
  /\ Balance(snapshots[3], "S2", "ciment") = 1

\* C28: a sector admin's transfer list is published only after the incoming
\* and the outgoing listener have each delivered a snapshot, and a published
\* list holds no transfer id twice
C28_PublishedAfterBoth ==
  lastList.published
    => /\ lastList.incoming /\ lastList.outgoing
       /\ \A i, j \in 1..Len(transfers) : transfers[i] = transfers[j] => i = j

\* C29: every stock row that a sector admin's addStock creates or increments
\* belongs to the admin's own sector, whatever secteurId the form holds; the
\* rows of the other sectors are left as they were
C29_AddStockOwnSector ==
  [][\A p \in 1..MaxProcs :
      (procs[p].pc = "as_write" /\ procs'[p].pc = "idle")
        => /\ ~isSuperAdmin(procs[p].client)
           /\ Len(db_stocks') >= Len(db_stocks)
           /\ \A i \in 1..Len(db_stocks') :
                (i > Len(db_stocks) \/ db_stocks'[i] # db_stocks[i])
                  => db_stocks'[i].secteurId = fermeId(procs[p].client)
           /\ \A s \in Sects \ {fermeId(procs[p].client)} :
                Balance(db_stocks', s, procs[p].item)
                  = Balance(db_stocks, s, procs[p].item)]_vars

\* a sector admin whose form held another sector has added stock: the
\* quantity is on the admin's own sector
C29_Witness ==
  /\ lastResult.op = "addStock" /\ lastResult.outcome = "ok"
  /\ ~isSuperAdmin(lastResult.client)
  /\ lastResult.form \in Sects \ {fermeId(lastResult.client)}
  /\ lastResult.to = fermeId(lastResult.client)
  /\ Balance(db_stocks, fermeId(lastResult.client), lastResult.item)
       >= lastResult.quantity

====
